---- MODULE Spec2Model ----
(***************************************************************************)
(* otslib: AbstractMediaItem.play (fetch worker thread + playback         *)
(* scheduler loop), AbstractMediaItem.get_media (bulk fetch) and the      *)
(* stream handle kept in AbstractMediaItem.__stream.                      *)
(*                                                                         *)
(* Time is counted in ticks of 10 ms.  A byte of the stream is modelled   *)
(* by its 1-based position in the media; a bytes object is a sequence of  *)
(* such positions.                                                         *)
(***************************************************************************)
EXTENDS Integers, Sequences, FiniteSets, TLC

\* ---------------------------------------------------------------- bounds
MaxSize == 3
MaxChunk == 2
MaxSkip == 1
MaxHeader == 2
MaxCalls == 2
MaxTicks == 1
MaxPolls == 1
MaxCancel == 2

\* ------------------------------------------------------ program constants
\* ticks (10 ms) per second: int(time.time()) is now \div TicksPerSec
TicksPerSec == 100
\* int(time.time()) - last_frame_on > 15
StallSecs == 15
\* thread.join(timeout=2)
GraceSecs == 2
\* time.time() > next_frame_critical_time + 0.03
Slack == 3
\* time.sleep(0.1)
SleepTicks == 10

\* audio duration, in ticks, that one byte of the stream decodes to
DurPerByte == TicksPerSec + TicksPerSec \div 2
\* a delay long enough for the stall watchdog to fire
StallJump == (StallSecs + 1) * TicksPerSec
StartTime == 10 * TicksPerSec + 95
\* a segment of one byte that is taken exactly Slack after its critical time,
\* and one that is taken 200 ms after it
LagAtSlack == DurPerByte + Slack
LagBeyondSlack == DurPerByte + 2 * SleepTicks
\* the delays the environment can add between two steps
Delays == {LagAtSlack, LagBeyondSlack, StallJump}
\* the largest chunk size of any call, hence the longest read
MaxRead == MaxChunk + 1

Calls == 1..MaxCalls

VARIABLES
    cfg,          \* arguments of the calls and the environment's parameters
    now,          \* time.time(), in ticks
    ticks,        \* environment delays taken so far
    polls,        \* time.sleep(0.1) polls taken so far
    stream,       \* self.__stream: 0 is None, otherwise a handle
    nextHandle,   \* the next handle content_feeder().load() returns
    pos,          \* read position of each handle's input stream
    readers,      \* per handle: the calls that have read bytes from it
    call,         \* number of calls made so far; the running call when spc # "idle"
    kind,         \* per call: "play", "get_media" or "none"
    spc,          \* position of the caller's thread
    result,       \* per call: how it ended
    cancelled,    \* per call: play() went through its except branch
    container,    \* per play(): the list shared by worker and scheduler
    stop_marker,  \* per play(): the MutableBool
    worker,       \* per play(): the locals of fetch_thread_worker
    appended,     \* per play(): every item the worker appended, in order
    written,      \* per play(): payloads written to player_process.stdin
    estimated_playback_end_on,
    next_frame_critical_time,
    last_frame_on,
    segment,      \* the item popped by the scheduler
    closed_at,    \* per play(): time at which stdin was closed, 0 if not
    takes,        \* per play(): for every item popped, the clock, the value of
                  \* next_frame_critical_time and the end time then computed
    written_at,   \* per play(): the clock at every write to stdin
    raw_media,    \* get_media locals
    gm,
    stop_check_list, \* occurrences of self.id in the caller's stop_check_list
    notes         \* per get_media(): the pg_notify calls, in order

vars == <<cfg, now, ticks, polls, stream, nextHandle, pos, readers, call, kind,
          spc, result, cancelled, container, stop_marker, worker, appended,
          written, estimated_playback_end_on, next_frame_critical_time,
          last_frame_on, segment, closed_at, takes, written_at, raw_media, gm,
          stop_check_list, notes>>

envVars == <<cfg>>
clockVars == <<now, ticks, polls>>
streamVars == <<stream, nextHandle, pos, readers>>
callVars == <<call, kind, spc, result, cancelled>>
playVars == <<container, stop_marker, worker, appended, written>>
schedVars == <<estimated_playback_end_on, next_frame_critical_time,
               last_frame_on, segment, closed_at, takes, written_at>>
gmVars == <<raw_media, gm, stop_check_list, notes>>

\* ---------------------------------------------------------------- helpers
Min(a, b) == IF a < b THEN a ELSE b

\* the terminal item (0.0, b'')
Sentinel == [dur |-> 0, payload |-> <<>>]

\* the k bytes that follow position p of the media
Bytes(p, k) == [i \in 1..k |-> p + i]

\* the non-empty payloads of q, in order
RECURSIVE AudioPayloads(_)
AudioPayloads(q) ==
    IF q = <<>> THEN <<>>
    ELSE IF Head(q).payload = <<>> THEN AudioPayloads(Tail(q))
         ELSE <<Head(q).payload>> \o AudioPayloads(Tail(q))

IsPrefix(s, t) == Len(s) <= Len(t) /\ \A i \in 1..Len(s) : s[i] = t[i]

\* int(time.time())
IntTime(t) == t \div TicksPerSec

\* ---------------------------------------------------- the stream handle
\* AbstractMediaItem.media_stream: the handle the property returns
MediaStream == IF stream # 0 THEN stream ELSE nextHandle

\* ... and its effect on self.__stream
LoadStream ==
    /\ stream' = MediaStream
    /\ nextHandle' = IF stream # 0 THEN nextHandle ELSE nextHandle + 1
    /\ pos' = IF stream # 0 THEN pos ELSE pos @@ (nextHandle :> 0)
    /\ readers' = IF stream # 0 THEN readers ELSE readers @@ (nextHandle :> {})

\* input_stream.stream().read(n) on handle h can return 0..Min(n, left) bytes
ReadSizes(h, n) == 0..Min(n, cfg.size - pos[h])

\* mutagen.oggvorbis.OggVorbis(BytesIO(full_data)).info.length; -1 stands for
\* OggVorbisHeaderError (the header is not complete yet)
OggLength(full_data) ==
    IF Len(full_data) < cfg.header THEN -1 ELSE DurPerByte * Len(full_data)

\* ------------------------------------------------------------ the worker
IdleWorker ==
    [pc |-> "idle", h |-> 0, size_fetched |-> 0, chunk |-> 0, data_len |-> -1,
     pending_data |-> <<>>, full_data |-> <<>>, length_till_last_segment |-> 0,
     ended |-> "no", late_reads |-> 0]

WorkerFinished(c) == worker[c].pc \in {"done", "raised"}

\* a loop test without the halt marker would keep reading
LoopConditionNoHalt(w, halt) == w.size_fetched < cfg.size

\* while size_fetched < total_size and not bool(halt_marker)
LoopCondition(w, halt) == w.size_fetched < cfg.size /\ ~halt

\* the while test; when it passes, self.media_stream is evaluated and the read
\* is issued
WorkerCheck(c) ==
    /\ worker[c].pc = "check"
    /\ IF LoopCondition(worker[c], stop_marker[c])
       THEN /\ LoadStream
            /\ worker' = [worker EXCEPT ![c].pc = "reading", ![c].h = MediaStream]
       ELSE /\ worker' = [worker EXCEPT ![c].pc = "sentinel",
                             ![c].ended = IF stop_marker[c] THEN "halt" ELSE "all"]
            /\ UNCHANGED streamVars
    /\ UNCHANGED <<envVars, clockVars, callVars, container, stop_marker, appended,
                   written, schedVars, gmVars>>

\* if (total_size - size_fetched) < chunk: chunk = total_size - size_fetched
ShrinkChunk(w) ==
    IF cfg.size - w.size_fetched < w.chunk THEN cfg.size - w.size_fetched ELSE w.chunk

\* len(data) == 0 and chunk <= skip_at_end: break
ToleratedEnd(k, chunk) == k = 0 /\ chunk <= cfg.skip

\* len(data) == 0 and chunk > skip_at_end: raise StreamReadException
ReadFailure(k, chunk) == k = 0 /\ chunk > cfg.skip

\* a segment length that is the probe's total, not the part added since the
\* last segment
SegmentTotal(length_till_now, length_till_last_segment) == length_till_now

\* this_segment_length = length_till_now - length_till_last_segment
SegmentLength(length_till_now, length_till_last_segment) ==
    length_till_now - length_till_last_segment

\* the read returns k bytes; the rest of the loop body
WorkerRead(c, k) ==
    LET w == worker[c]
        h == w.h
        data == Bytes(pos[h], k)
        pending == w.pending_data \o data
        chunk == ShrinkChunk(w)
        full == w.full_data \o data
        len == OggLength(full)
        w1 == [w EXCEPT !.data_len = k, !.pending_data = pending,
                  !.late_reads = IF stop_marker[c] THEN @ + 1 ELSE @]
    IN
    /\ w.pc = "reading"
    /\ k \in ReadSizes(h, w.chunk)
    /\ pos' = [pos EXCEPT ![h] = @ + k]
    /\ readers' = [readers EXCEPT ![h] = IF k > 0 THEN @ \cup {c} ELSE @]
    /\ UNCHANGED <<stream, nextHandle>>
    /\ IF ToleratedEnd(k, w.chunk)
       THEN /\ worker' = [worker EXCEPT ![c] = [w1 EXCEPT !.pc = "sentinel",
                                                   !.ended = "tolerated"]]
            /\ UNCHANGED <<container, appended>>
       ELSE IF ReadFailure(k, chunk)
       THEN /\ worker' = [worker EXCEPT ![c] = [w1 EXCEPT !.pc = "raising",
                                                   !.chunk = chunk,
                                                   !.ended = "failure"]]
            /\ container' = [container EXCEPT ![c] = Append(@, Sentinel)]
            /\ appended' = [appended EXCEPT ![c] = Append(@, Sentinel)]
       ELSE IF len = -1
       THEN /\ worker' = [worker EXCEPT ![c] = [w1 EXCEPT !.pc = "check",
                                                   !.chunk = chunk,
                                                   !.size_fetched = @ + k,
                                                   !.full_data = full]]
            /\ UNCHANGED <<container, appended>>
       ELSE LET item == [dur |-> SegmentLength(len, w.length_till_last_segment),
                         payload |-> pending]
            IN /\ worker' = [worker EXCEPT ![c] = [w1 EXCEPT !.pc = "check",
                                                   !.chunk = chunk,
                                                   !.size_fetched = @ + k,
                                                   !.full_data = full,
                                                   !.length_till_last_segment = len,
                                                   !.pending_data = <<>>]]
               /\ container' = [container EXCEPT ![c] = Append(@, item)]
               /\ appended' = [appended EXCEPT ![c] = Append(@, item)]
    /\ UNCHANGED <<envVars, clockVars, callVars, stop_marker, written, schedVars,
                   gmVars>>

\* media_container.append((0.0, b'')) after the loop
WorkerSentinel(c) ==
    /\ worker[c].pc = "sentinel"
    /\ worker' = [worker EXCEPT ![c].pc = "done"]
    /\ container' = [container EXCEPT ![c] = Append(@, Sentinel)]
    /\ appended' = [appended EXCEPT ![c] = Append(@, Sentinel)]
    /\ UNCHANGED <<envVars, clockVars, streamVars, callVars, stop_marker, written,
                   schedVars, gmVars>>

\* raise StreamReadException(...) ends the thread
WorkerRaise(c) ==
    /\ worker[c].pc = "raising"
    /\ worker' = [worker EXCEPT ![c].pc = "raised"]
    /\ UNCHANGED <<envVars, clockVars, streamVars, callVars, container, stop_marker,
                   appended, written, schedVars, gmVars>>


\* ------------------------------------------------- play(): the scheduler
InPlay ==
    spc \in {"loop", "write", "stall_join", "cancel_join", "drain", "wait", "close"}

\* self.reset_stream()
ResetStream == stream' = 0

\* play() up to thread.start(): reset_stream(), self.media_stream passed to the
\* thread, the scheduler's locals
PlayStart ==
    LET c == call + 1 IN
    /\ spc = "idle"
    /\ call < cfg.calls
    /\ Cardinality({i \in Calls : kind[i] = "play"}) < cfg.plays
    /\ call' = c
    /\ kind' = [kind EXCEPT ![c] = "play"]
    /\ spc' = "loop"
    /\ stream' = nextHandle
    /\ nextHandle' = nextHandle + 1
    /\ pos' = pos @@ (nextHandle :> 0)
    /\ readers' = readers @@ (nextHandle :> {})
    /\ worker' = [worker EXCEPT ![c] = [IdleWorker EXCEPT !.pc = "check",
                                            !.chunk = cfg.chunk]]
    /\ estimated_playback_end_on' = 0
    /\ next_frame_critical_time' = 0
    /\ last_frame_on' = IntTime(now)
    /\ UNCHANGED <<envVars, clockVars, result, cancelled, container, stop_marker,
                   appended, written, segment, closed_at, takes, written_at,
                   gmVars>>

\* without the watchdog the scheduler would poll an empty queue for ever
StallNever == FALSE

\* a watchdog that waits twice the timeout would fire late
StallDetectedLate == IntTime(now) - last_frame_on > StallSecs + StallSecs

\* int(time.time()) - last_frame_on > 15
StallDetected == IntTime(now) - last_frame_on > StallSecs

\* the watchdog branch: stop_marker.set(True), then thread.join(timeout=2)
SchedStall ==
    /\ spc = "loop"
    /\ StallDetected
    /\ stop_marker' = [stop_marker EXCEPT ![call] = TRUE]
    /\ spc' = "stall_join"
    /\ UNCHANGED <<envVars, clockVars, streamVars, call, kind, result, cancelled,
                   container, worker, appended, written, schedVars, gmVars>>

\* a test without the slack would count every item taken after its critical
\* time as late
FrameLateNoSlack == next_frame_critical_time # 0 /\ now > next_frame_critical_time

\* time.time() > next_frame_critical_time + 0.03
FrameLate == next_frame_critical_time # 0 /\ now > next_frame_critical_time + Slack

\* an end time stamped anew at every item would forget what was accumulated
EndAfterLagRestamp == now

\* an extension by the part of the overrun that exceeds the slack
EndAfterLagLessSlack ==
    LET e == IF FrameLate
             THEN estimated_playback_end_on + (now - next_frame_critical_time) - Slack
             ELSE estimated_playback_end_on
    IN IF e = 0 THEN now ELSE e

\* estimated_playback_end_on after the lag compensation and the start stamp
EndAfterLag ==
    LET e == IF FrameLate
             THEN estimated_playback_end_on + (now - next_frame_critical_time)
             ELSE estimated_playback_end_on
    IN IF e = 0 THEN now ELSE e

\* list.pop() without an index would take the last item instead
PopLast(q) == [item |-> q[Len(q)], rest |-> SubSeq(q, 1, Len(q) - 1)]

\* container.pop(0): the first item and what is left of the list
Pop0(q) == [item |-> Head(q), rest |-> Tail(q)]

\* len(container) > 0: lag compensation, container.pop(0), break on b''
SchedTake ==
    LET seg == Pop0(container[call]).item IN
    /\ spc = "loop"
    /\ ~StallDetected
    /\ Len(container[call]) > 0
    /\ last_frame_on' = IntTime(now)
    /\ container' = [container EXCEPT ![call] = Pop0(@).rest]
    /\ segment' = seg
    /\ IF seg.payload = <<>>
       THEN /\ estimated_playback_end_on' = EndAfterLag
            /\ spc' = "drain"
       ELSE /\ estimated_playback_end_on' = EndAfterLag + seg.dur
            /\ spc' = "write"
    /\ takes' = [takes EXCEPT ![call] =
                     Append(@, [at |-> now, critical |-> next_frame_critical_time,
                                end |-> estimated_playback_end_on'])]
    /\ UNCHANGED <<envVars, clockVars, streamVars, call, kind, result, cancelled,
                   stop_marker, worker, appended, written,
                   next_frame_critical_time, closed_at, written_at, gmVars>>

\* player_process.stdin.write(playable_bytes) returns
SchedWrite ==
    /\ spc = "write"
    /\ written' = [written EXCEPT ![call] = Append(@, segment.payload)]
    /\ next_frame_critical_time' = now + segment.dur
    /\ written_at' = [written_at EXCEPT ![call] = Append(@, now)]
    /\ spc' = "loop"
    /\ UNCHANGED <<envVars, clockVars, streamVars, call, kind, result, cancelled,
                   container, stop_marker, worker, appended,
                   estimated_playback_end_on, last_frame_on, segment, closed_at,
                   takes, gmVars>>

\* the queue is empty: time.sleep(0.1)
SchedSleep ==
    /\ spc = "loop"
    /\ ~StallDetected
    /\ Len(container[call]) = 0
    /\ polls < MaxPolls
    /\ polls' = polls + 1
    /\ now' = now + SleepTicks
    /\ UNCHANGED <<envVars, ticks, streamVars, callVars, playVars, schedVars, gmVars>>

\* except (KeyboardInterrupt, BrokenPipeError): stop_marker.set(True)
ExceptBranch ==
    /\ stop_marker' = [stop_marker EXCEPT ![call] = TRUE]
    /\ cancelled' = [cancelled EXCEPT ![call] = TRUE]
    /\ spc' = "cancel_join"

\* player_process.stdin.write raises BrokenPipeError
SchedBrokenPipe ==
    /\ spc = "write"
    /\ ExceptBranch
    /\ UNCHANGED <<envVars, clockVars, streamVars, call, kind, result, container,
                   worker, appended, written, schedVars, gmVars>>

\* KeyboardInterrupt delivered inside the try block (lines 418-442)
InterruptInTry ==
    /\ spc \in {"loop", "write", "stall_join"}
    /\ cfg.interrupts
    /\ ExceptBranch
    /\ UNCHANGED <<envVars, clockVars, streamVars, call, kind, result, container,
                   worker, appended, written, schedVars, gmVars>>

\* KeyboardInterrupt delivered outside the try block: it leaves play()
InterruptOutsideTry ==
    /\ spc \in {"cancel_join", "drain", "wait", "close"}
    /\ cfg.interrupts
    /\ result' = [result EXCEPT ![call] = "interrupt"]
    /\ spc' = "idle"
    /\ UNCHANGED <<envVars, clockVars, streamVars, call, kind, cancelled, playVars,
                   schedVars, gmVars>>

\* what follows thread.join(timeout=2): the RuntimeError of the watchdog leaves
\* play(); the except branch breaks out of the loop
AfterJoin ==
    IF spc = "stall_join"
    THEN /\ result' = [result EXCEPT ![call] = "stall"]
         /\ spc' = "idle"
    ELSE /\ spc' = "drain"
         /\ UNCHANGED result

\* thread.join(timeout=2) returns because the worker has ended
JoinReturn ==
    /\ spc \in {"stall_join", "cancel_join"}
    /\ WorkerFinished(call)
    /\ AfterJoin
    /\ UNCHANGED <<envVars, clockVars, streamVars, call, kind, cancelled, playVars,
                   schedVars, gmVars>>

\* thread.join(timeout=2) times out with the worker still running
JoinTimeout ==
    /\ spc \in {"stall_join", "cancel_join"}
    /\ ~WorkerFinished(call)
    /\ now' = now + GraceSecs * TicksPerSec
    /\ AfterJoin
    /\ UNCHANGED <<envVars, ticks, polls, streamVars, call, kind, cancelled,
                   playVars, schedVars, gmVars>>

\* time_to_wait: int(estimated_playback_end_on - time.time()), in seconds
TimeToWait ==
    IF estimated_playback_end_on > now
    THEN (estimated_playback_end_on - now) \div TicksPerSec
    ELSE 0

\* if not bool(stop_marker): the test that guards time.sleep(time_to_wait)
SchedDrain ==
    /\ spc = "drain"
    /\ spc' = IF stop_marker[call] THEN "close" ELSE "wait"
    /\ UNCHANGED <<envVars, clockVars, streamVars, call, kind, result, cancelled,
                   playVars, schedVars, gmVars>>

\* time.sleep(time_to_wait) returns
SchedWait ==
    /\ spc = "wait"
    /\ now' = now + TimeToWait * TicksPerSec
    /\ spc' = "close"
    /\ UNCHANGED <<envVars, ticks, polls, streamVars, call, kind, result, cancelled,
                   playVars, schedVars, gmVars>>

\* stdin.close(), terminate() (BrokenPipeError swallowed), self.reset_stream()
SchedClose ==
    /\ spc = "close"
    /\ closed_at' = [closed_at EXCEPT ![call] = now]
    /\ ResetStream
    /\ result' = [result EXCEPT ![call] = "returned"]
    /\ spc' = "idle"
    /\ UNCHANGED <<envVars, clockVars, nextHandle, pos, readers, call, kind,
                   cancelled, playVars, estimated_playback_end_on,
                   next_frame_critical_time, last_frame_on, segment, takes,
                   written_at, gmVars>>

\* the caller-supplied stop marker is set by another party
ExternalStop ==
    /\ InPlay
    /\ cfg.extstop
    /\ ~stop_marker[call]
    /\ stop_marker' = [stop_marker EXCEPT ![call] = TRUE]
    /\ UNCHANGED <<envVars, clockVars, streamVars, callVars, container, worker,
                   appended, written, schedVars, gmVars>>

\* wall-clock time passes (a blocked read or write, scheduling delay); delays
\* are not followed further once the watchdog's threshold is passed
Tick(d) ==
    /\ spc \in {"loop", "write", "drain"}
    /\ d \in cfg.delays
    /\ ticks < MaxTicks
    /\ IntTime(now) - last_frame_on <= StallSecs
    /\ ticks' = ticks + 1
    /\ now' = now + d
    /\ UNCHANGED <<envVars, polls, streamVars, callVars, playVars, schedVars, gmVars>>


\* ------------------------------------------------------------ get_media()
InGetMedia == spc \in {"gm_check", "gm_read", "gm_exit"}

\* get_media() up to the loop: total_size read through self.media_stream
GetMediaStart ==
    LET c == call + 1 IN
    /\ spc = "idle"
    /\ call < cfg.calls
    /\ call' = c
    /\ kind' = [kind EXCEPT ![c] = "get_media"]
    /\ spc' = "gm_check"
    /\ LoadStream
    /\ raw_media' = <<>>
    /\ gm' = [chunk_size |-> cfg.chunk, h |-> 0, data_len |-> -1, listed |-> 0,
              reads |-> 0]
    /\ UNCHANGED <<envVars, clockVars, result, cancelled, playVars, schedVars,
                   stop_check_list, notes>>

\* while len(raw_media) < total_size and self.id not in stop_check_list
GetMediaCondition == Len(raw_media) < cfg.size /\ stop_check_list = 0

GetMediaCheck ==
    /\ spc = "gm_check"
    /\ IF GetMediaCondition
       THEN /\ LoadStream
            /\ gm' = [gm EXCEPT !.h = MediaStream]
            /\ spc' = "gm_read"
       ELSE /\ spc' = "gm_exit"
            /\ UNCHANGED <<streamVars, gm>>
    /\ UNCHANGED <<envVars, clockVars, call, kind, result, cancelled, playVars,
                   schedVars, raw_media, stop_check_list, notes>>

\* a chunk size that is never adjusted to what is left
GetMediaNoShrink(raw, chunk) == chunk

\* if (total_size - len(raw_media)) < chunk_size: chunk_size = ...
GetMediaShrink(raw, chunk) ==
    IF cfg.size - Len(raw) < chunk THEN cfg.size - Len(raw) ELSE chunk

\* a notification of the size of the last read instead of the running total
DownloadNoteOfRead(raw, k) == <<k, cfg.size, "Downloading">>

\* pg_notify(len(raw_media), total_size, 'Downloading') after a read of k bytes
DownloadNote(raw, k) == <<Len(raw), cfg.size, "Downloading">>

\* the read returns k bytes; the rest of the loop body; gm.reads counts the
\* reads that have returned
GetMediaRead(k) ==
    LET h == gm.h
        raw == raw_media \o Bytes(pos[h], k)
        chunk == GetMediaShrink(raw, gm.chunk_size)
        note == DownloadNote(raw, k)
    IN
    /\ spc = "gm_read"
    /\ k \in ReadSizes(h, gm.chunk_size)
    /\ raw_media' = raw
    /\ pos' = [pos EXCEPT ![h] = @ + k]
    /\ readers' = [readers EXCEPT ![h] = IF k > 0 THEN @ \cup {call} ELSE @]
    /\ UNCHANGED nextHandle
    /\ IF ToleratedEnd(k, gm.chunk_size)
       THEN /\ spc' = "gm_exit"
            /\ notes' = [notes EXCEPT ![call] = Append(@, note)]
            /\ gm' = [gm EXCEPT !.data_len = k, !.reads = @ + 1]
            /\ UNCHANGED <<stream, result>>
       ELSE IF ReadFailure(k, chunk)
       THEN /\ notes' = [notes EXCEPT ![call] = @ \o <<note, <<0, 1, "Read Error">>>>]
            /\ ResetStream
            /\ result' = [result EXCEPT ![call] = "read_failure"]
            /\ spc' = "idle"
            /\ gm' = [gm EXCEPT !.chunk_size = chunk, !.data_len = k, !.reads = @ + 1]
       ELSE /\ notes' = [notes EXCEPT ![call] = Append(@, note)]
            /\ gm' = [gm EXCEPT !.chunk_size = chunk, !.data_len = k, !.reads = @ + 1]
            /\ spc' = "gm_check"
            /\ UNCHANGED <<stream, result>>
    /\ UNCHANGED <<envVars, clockVars, call, kind, cancelled, playVars, schedVars,
                   stop_check_list>>

\* a removal of every occurrence would leave none
PopAll(n) == 0

\* stop_check_list.pop(stop_check_list.index(self.id)): the first of the n
\* occurrences of self.id is removed
PopFirst(n) == n - 1

\* after the loop: the cancel branch, or reset_stream() and return raw_media;
\* gm.listed keeps the occurrences of self.id the cancel branch found
GetMediaExit ==
    /\ spc = "gm_exit"
    /\ IF stop_check_list > 0
       THEN /\ stop_check_list' = PopFirst(stop_check_list)
            /\ notes' = [notes EXCEPT ![call] = Append(@, <<0, 1, "Cancelled">>)]
            /\ result' = [result EXCEPT ![call] = "interrupted"]
       ELSE /\ result' = [result EXCEPT ![call] = "returned"]
            /\ UNCHANGED <<stop_check_list, notes>>
    /\ gm' = [gm EXCEPT !.listed = stop_check_list]
    /\ ResetStream
    /\ spc' = "idle"
    /\ UNCHANGED <<envVars, clockVars, nextHandle, pos, readers, call, kind,
                   cancelled, playVars, schedVars, raw_media>>

\* another party appends self.id to the stop_check_list
CancelRequest ==
    /\ InGetMedia
    /\ stop_check_list < MaxCancel
    /\ stop_check_list' = stop_check_list + 1
    /\ UNCHANGED <<envVars, clockVars, streamVars, callVars, playVars, schedVars,
                   raw_media, gm, notes>>

\* ------------------------------------------------------ the specification
Params(sizes, chunks, skips, headers, calls) ==
    [size : sizes, chunk : chunks, skip : skips, header : headers, calls : calls,
     plays : {1},
     delays : {{StallJump}}, interrupts : {TRUE}, extstop : {TRUE}]

InitWith(params) ==
    /\ cfg \in params
    /\ now = StartTime
    /\ ticks = 0
    /\ polls = 0
    /\ stream = 0
    /\ nextHandle = 1
    /\ pos = <<>>
    /\ readers = <<>>
    /\ call = 0
    /\ kind = [c \in Calls |-> "none"]
    /\ spc = "idle"
    /\ result = [c \in Calls |-> "none"]
    /\ cancelled = [c \in Calls |-> FALSE]
    /\ container = [c \in Calls |-> <<>>]
    /\ stop_marker = [c \in Calls |-> FALSE]
    /\ worker = [c \in Calls |-> IdleWorker]
    /\ appended = [c \in Calls |-> <<>>]
    /\ written = [c \in Calls |-> <<>>]
    /\ estimated_playback_end_on = 0
    /\ next_frame_critical_time = 0
    /\ last_frame_on = 0
    /\ segment = Sentinel
    /\ closed_at = [c \in Calls |-> 0]
    /\ takes = [c \in Calls |-> <<>>]
    /\ written_at = [c \in Calls |-> <<>>]
    /\ raw_media = <<>>
    /\ gm = [chunk_size |-> 0, h |-> 0, data_len |-> -1, listed |-> 0, reads |-> 0]
    /\ stop_check_list = 0
    /\ notes = [c \in Calls |-> <<>>]

\* one call, every argument
Init == InitWith(Params(1..MaxSize, 1..MaxChunk, 0..MaxSkip, 1..MaxHeader, {1}))

Next ==
    \/ \E c \in Calls : WorkerCheck(c)
    \/ \E c \in Calls : \E k \in 0..MaxRead : WorkerRead(c, k)
    \/ \E c \in Calls : WorkerSentinel(c)
    \/ \E c \in Calls : WorkerRaise(c)
    \/ PlayStart
    \/ SchedStall
    \/ SchedTake
    \/ SchedWrite
    \/ SchedSleep
    \/ SchedBrokenPipe
    \/ InterruptInTry
    \/ InterruptOutsideTry
    \/ JoinReturn
    \/ JoinTimeout
    \/ SchedDrain
    \/ SchedWait
    \/ SchedClose
    \/ ExternalStop
    \/ \E d \in Delays : Tick(d)
    \/ GetMediaStart
    \/ GetMediaCheck
    \/ \E k \in 0..MaxRead : GetMediaRead(k)
    \/ GetMediaExit
    \/ CancelRequest

Spec == Init /\ [][Next]_vars

\* a sequence of calls on one media item, default-like arguments
InitSeq == InitWith(Params({2}, {2}, {1}, {1}, {MaxCalls}))

SpecSeq == InitSeq /\ [][Next]_vars

\* one call with a chunk size above a tolerance of two bytes
InitTol == InitWith(Params({MaxSize}, {MaxChunk + 1}, {MaxSkip + 1}, {1}, {1}))

SpecTol == InitTol /\ [][Next]_vars

\* one call on a stream of two one-byte segments, with delays around the
\* critical time of a segment
InitTimed ==
    InitWith({[p EXCEPT !.delays = Delays] : p \in Params({2}, {1}, {0}, {1}, {1})})

SpecTimed == InitTimed /\ [][Next]_vars

\* the steps of the scheduler, which runs on the caller's thread: every one of
\* them returns (bounded sleeps, a bounded join, writes that return)
SchedulerStep ==
    \/ SchedStall
    \/ SchedTake
    \/ SchedWrite
    \/ SchedSleep
    \/ JoinReturn
    \/ JoinTimeout
    \/ SchedDrain
    \/ SchedWait
    \/ SchedClose

\* wall-clock time advances
TimePasses == \E d \in Delays : Tick(d)

\* one call; the scheduler keeps running and time keeps passing, while the
\* worker's reads may never return
InitLive == InitWith(Params({2}, 1..2, 0..1, {1}, {1}))

SpecLive ==
    /\ InitLive
    /\ [][Next]_vars
    /\ WF_vars(SchedulerStep)
    /\ WF_vars(TimePasses)


\* ----------------------------------------------------------------- claims
\* items the scheduler has popped from the container of play() c
Popped(c) == SubSeq(appended[c], 1, Len(appended[c]) - Len(container[c]))

\* C1: in every worker run exactly one terminal sentinel is appended and it is
\* the last item appended: an item with an empty payload is in the list of
\* appended items only once the worker has left its loop for good, it is the
\* last one, and a finished worker has appended it.
C1_OneSentinelLast ==
    \A c \in Calls :
        LET a == appended[c] IN
        /\ \A i \in 1..Len(a) :
              a[i].payload = <<>> =>
                  /\ i = Len(a)
                  /\ worker[c].pc \in {"raising", "raised", "done"}
        /\ WorkerFinished(c) => a # <<>> /\ a[Len(a)] = Sentinel

\* C2: when the worker has failed with StreamReadException, play() does not
\* end as a normal completion (a plain return that did not go through the
\* except branch).
C2_FailureNeverComplete ==
    \A c \in Calls :
        ~(worker[c].ended = "failure" /\ result[c] = "returned" /\ ~cancelled[c])

\* C3: the container always holds exactly the appended items not yet popped,
\* in order, and the payloads written to the consumer are, in order, the audio
\* payloads of the popped items, short of at most the one being written.
C3_InOrderDelivery ==
    \A c \in Calls :
        /\ Len(container[c]) <= Len(appended[c])
        /\ container[c] = SubSeq(appended[c],
                                 Len(appended[c]) - Len(container[c]) + 1,
                                 Len(appended[c]))
        /\ IsPrefix(written[c], AudioPayloads(Popped(c)))
        /\ IsPrefix(written[c], AudioPayloads(appended[c]))
        /\ Len(AudioPayloads(Popped(c))) - Len(written[c]) <= 1

\* C3 witness: two payloads written while the worker has more in the queue
C3_Witness ==
    \E c \in Calls : Len(written[c]) >= 2 /\ Len(container[c]) >= 1

\* C4: whenever control leaves play(), by a return or by the watchdog's error,
\* self.__stream is None.
C4_StreamInvalidatedOnExit ==
    [][(InPlay /\ spc' = "idle" /\ result'[call] \in {"returned", "stall"})
          => stream' = 0]_vars

\* C5: no handle is read by two calls (a call's worker counts as the call).
C5_FreshHandlePerCall ==
    \A h \in DOMAIN readers : Cardinality(readers[h]) <= 1

C7_NoReadAfterHalt ==
    \A c \in Calls :
        /\ worker[c].late_reads <= 1
        /\ worker[c].ended = "halt" =>
              /\ worker[c].pc \in {"sentinel", "done"}
              /\ stop_marker[c]
              /\ worker[c].pc = "done" =>
                    appended[c][Len(appended[c])] = Sentinel

\* C7 witness: the marker was set during a read; the worker finished that
\* read, saw the marker and returned with bytes still unread
C7_Witness ==
    \E c \in Calls :
        /\ worker[c].ended = "halt"
        /\ worker[c].pc = "done"
        /\ worker[c].late_reads = 1
        /\ worker[c].size_fetched < cfg.size

\* C8: after a zero-length read with more than skip_at_end bytes unread the
\* worker has failed (sentinel appended, StreamReadException); a worker that
\* ended without failure or halt has at most skip_at_end bytes unread.
C8_ZeroReadBeyondToleranceFails ==
    \A c \in Calls :
        LET w == worker[c] IN
        /\ (w.data_len = 0 /\ w.pc # "reading"
               /\ cfg.size - w.size_fetched > cfg.skip)
              => w.ended = "failure"
        /\ w.ended \in {"all", "tolerated"}
              => cfg.size - w.size_fetched <= cfg.skip

\* C9: when the worker ended on a tolerated zero-length read and play()
\* returned without going through its except branch, every audio segment the
\* worker published was written to the consumer.
C9_ToleratedEndCompletes ==
    \A c \in Calls :
        (/\ worker[c].ended = "tolerated"
         /\ worker[c].pc = "done"
         /\ result[c] = "returned"
         /\ ~cancelled[c])
            => written[c] = AudioPayloads(appended[c])

\* C10: a read in flight never asks for more bytes than are still unread
\* (stated for calls whose chunk size does not exceed the stream's size).
C10_NoOverRead ==
    \A c \in Calls :
        (worker[c].pc = "reading" /\ cfg.chunk <= cfg.size)
            => worker[c].chunk <= cfg.size - worker[c].size_fetched

\* the items of q that carry audio, in order
AudioItems(q) == SelectSeq(q, LAMBDA item : item.payload # <<>>)

\* the sum of the durations of the items of q
RECURSIVE SumDur(_)
SumDur(q) == IF q = <<>> THEN 0 ELSE Head(q).dur + SumDur(Tail(q))

LastNote(c) == notes[c][Len(notes[c])]

\* C12: in get_media(), after a zero-length read with more than
\* skip_at_end_bytes unread the call has ended with StreamReadException, the
\* stream reset and 'Read Error' notified; a call that returned is not short
\* by more than skip_at_end_bytes.
C12_GetMediaShortReadFails ==
    \A c \in Calls :
        (kind[c] = "get_media" /\ call = c) =>
            /\ (/\ gm.data_len = 0
                /\ spc # "gm_read"
                /\ cfg.size - Len(raw_media) > cfg.skip)
                  => /\ result[c] = "read_failure"
                     /\ stream = 0
                     /\ LastNote(c) = <<0, 1, "Read Error">>
            /\ result[c] = "returned" => cfg.size - Len(raw_media) <= cfg.skip

\* C13: in get_media(), a zero-length read with at most skip_at_end_bytes
\* unread never ends the call with StreamReadException; when the call ends on
\* it with self.id not in the stop_check_list it has returned; and what a call
\* returns is exactly the bytes it read, in read order (on a handle that no
\* other call has read: the bytes that end at the handle's position).
C13_GetMediaToleratedEnd ==
    \A c \in Calls :
        (kind[c] = "get_media" /\ call = c) =>
            /\ (/\ gm.data_len = 0
                /\ spc # "gm_read"
                /\ cfg.size - Len(raw_media) <= cfg.skip)
                  => /\ result[c] # "read_failure"
                     /\ (spc = "idle" /\ gm.listed = 0) => result[c] = "returned"
            /\ (result[c] = "returned" /\ readers[gm.h] \subseteq {c})
                  => raw_media = Bytes(pos[gm.h] - Len(raw_media), Len(raw_media))

\* C13 witness: a call returned a buffer that is short by the tolerated byte
\* after a zero-length read
C13_Witness ==
    \E c \in Calls :
        /\ kind[c] = "get_media"
        /\ call = c
        /\ result[c] = "returned"
        /\ gm.data_len = 0
        /\ raw_media # <<>>
        /\ Len(raw_media) < cfg.size
        /\ cfg.size - Len(raw_media) <= cfg.skip

\* what C14 says of a get_media() c that ended in its cancel branch, but for
\* the stop_check_list: every earlier notification is a 'Downloading' one and
\* the latest of them carries the length of raw_media (no read since), the
\* last notification is 'Cancelled', and the stream is reset
CancelBranchTaken(c) ==
    LET n == Len(notes[c]) IN
    /\ gm.listed >= 1
    /\ LastNote(c) = <<0, 1, "Cancelled">>
    /\ \A i \in 1..(n - 1) : notes[c][i][3] = "Downloading"
    /\ Len(raw_media) = IF n >= 2 THEN notes[c][n - 1][1] ELSE 0
    /\ stream = 0

\* C14 (as stated): a get_media() that found self.id in the stop_check_list
\* issues no further read, leaves the list without self.id, notifies
\* 'Cancelled', resets the stream and raises MediaFetchInterruptedException.
C14_IdAbsentAfterCancel ==
    \A c \in Calls :
        (kind[c] = "get_media" /\ call = c) =>
            /\ result[c] = "interrupted" => CancelBranchTaken(c) /\ stop_check_list = 0
            /\ result[c] = "returned" => gm.listed = 0

\* C14 (amended): as above, but one occurrence of self.id is removed from the
\* list: when the list held it more than once it still holds it afterwards.
C14_OneOccurrenceRemoved ==
    \A c \in Calls :
        (kind[c] = "get_media" /\ call = c) =>
            /\ result[c] = "interrupted"
                  => CancelBranchTaken(c) /\ stop_check_list = gm.listed - 1
            /\ result[c] = "returned" => gm.listed = 0

\* C14 witness: a call that had read some bytes was cancelled with self.id
\* twice in the list, and one occurrence is left
C14_Witness ==
    \E c \in Calls :
        /\ kind[c] = "get_media"
        /\ call = c
        /\ result[c] = "interrupted"
        /\ raw_media # <<>>
        /\ gm.listed = 2
        /\ stop_check_list = 1

\* C15: a play() that consumed the terminal item and returned with its stop
\* marker never set has closed the consumer at or after the end time it had
\* computed (estimated_playback_end_on as of the last item taken).
C15_CloseNotBeforeEnd ==
    \A c \in Calls :
        LET t == takes[c] IN
        (/\ kind[c] = "play"
         /\ result[c] = "returned"
         /\ ~cancelled[c]
         /\ ~stop_marker[c]
         /\ t # <<>>
         /\ Popped(c)[Len(t)].payload = <<>>)
            => closed_at[c] >= t[Len(t)].end

\* by how much the i-th item popped by play() c was taken after the
\* next_frame_critical_time of the item before it
Lateness(c, i) == takes[c][i].at - takes[c][i].critical

\* by how much estimated_playback_end_on was extended when the i-th item was
\* taken, its own duration aside
Extension(c, i) == takes[c][i].end - takes[c][i - 1].end - Popped(c)[i].dur

\* C16 (as stated): an item taken L > 30 ms after next_frame_critical_time
\* extends estimated_playback_end_on by L less the 30 ms, besides its duration.
C16_ExtendedByLagLessSlack ==
    \A c \in Calls :
        \A i \in 2..Len(takes[c]) :
            Lateness(c, i) > Slack => Extension(c, i) = Lateness(c, i) - Slack

\* C16 (amended): an item taken L > 30 ms after next_frame_critical_time
\* extends estimated_playback_end_on by the whole of L, besides its duration.
C16_ExtendedByLag ==
    \A c \in Calls :
        \A i \in 2..Len(takes[c]) :
            Lateness(c, i) > Slack => Extension(c, i) = Lateness(c, i)

\* C16 witness: the second segment was taken 200 ms late and the end time
\* was extended by 200 ms and by the segment's duration
C16_Witness ==
    \E c \in Calls :
        /\ Len(takes[c]) >= 2
        /\ Popped(c)[2].payload # <<>>
        /\ Lateness(c, 2) = 2 * SleepTicks
        /\ takes[c][2].end = takes[c][1].end + 2 * SleepTicks + Popped(c)[2].dur

\* C17: every item taken after the first extends estimated_playback_end_on
\* by its lateness when that exceeds 30 ms and by nothing otherwise, and in
\* both cases adds its duration; and whenever the scheduler is back at the top
\* of its loop the payload of every segment it took has been written.
C17_LagNeverDropsData ==
    \A c \in Calls :
        /\ \A i \in 2..Len(takes[c]) :
              takes[c][i].end =
                  takes[c][i - 1].end
                    + (IF Lateness(c, i) > Slack THEN Lateness(c, i) ELSE 0)
                    + Popped(c)[i].dur
        /\ (call = c /\ spc = "loop") => written[c] = AudioPayloads(Popped(c))

\* C17 witness: the second segment was taken after its critical time but
\* within the slack; the end time advanced by its duration alone and its
\* payload was written
C17_Witness ==
    \E c \in Calls :
        /\ call = c
        /\ spc = "loop"
        /\ Len(takes[c]) = 2
        /\ Lateness(c, 2) > 0
        /\ Lateness(c, 2) <= Slack
        /\ takes[c][2].end = takes[c][1].end + Popped(c)[2].dur
        /\ Len(written[c]) = 2

\* C18: when the worker has left its loop with the whole stream read, once
\* and in order, and the probe can decode it, the durations of the audio
\* segments it published add up to the probe's length of the full stream.
C18_DurationsSumToTotal ==
    \A c \in Calls :
        LET w == worker[c] IN
        (/\ w.ended = "all"
         /\ w.full_data = Bytes(0, cfg.size)
         /\ OggLength(Bytes(0, cfg.size)) # -1)
            => SumDur(AudioItems(appended[c])) = OggLength(Bytes(0, cfg.size))

\* C18 witness: the whole stream was read and published in three segments
C18_Witness ==
    \E c \in Calls :
        /\ worker[c].ended = "all"
        /\ worker[c].pc = "done"
        /\ worker[c].full_data = Bytes(0, cfg.size)
        /\ Len(AudioItems(appended[c])) = 3
        /\ SumDur(AudioItems(appended[c])) = 3 * DurPerByte

\* C19: a KeyboardInterrupt never leaves play(): a play() that has not been
\* through its except branch before does not end with the interrupt raised
\* to its caller.
C19_InterruptEndsCancelled ==
    \A c \in Calls :
        (kind[c] = "play" /\ ~cancelled[c]) => result[c] # "interrupt"

\* C20: a play() whose stop marker is set does not wait for
\* estimated_playback_end_on: the clock does not advance in its final sleep.
C20_StopSkipsFinalWait ==
    [][(spc = "wait" /\ stop_marker[call] /\ spc' = "close") => now' = now]_vars

\* C21: every play() that was started eventually ends, by a return or by an
\* error, whatever its worker does.
C21_PlayTerminates ==
    \A c \in Calls : (kind[c] = "play") ~> (result[c] # "none")

\* C21 witness: a play() has ended with the watchdog's error although the
\* first read of its worker never returned
C21_Witness ==
    \E c \in Calls :
        /\ kind[c] = "play"
        /\ result[c] = "stall"
        /\ worker[c].pc = "reading"
        /\ worker[c].data_len = -1
        /\ appended[c] = <<>>

\* the 'Downloading' notifications of get_media() c, in order
Downloads(c) == SelectSeq(notes[c], LAMBDA note : note[3] = "Downloading")

\* C22: get_media() has notified 'Downloading' once for every read that
\* returned, zero-length reads included, each time with the total size; the
\* counts notified never decrease, the latest is the length of raw_media, and
\* none exceeds the bytes read from the handle.
C22_NotifiedAfterEveryRead ==
    \A c \in Calls :
        (kind[c] = "get_media" /\ call = c) =>
            LET d == Downloads(c) IN
            /\ Len(d) = gm.reads
            /\ \A i \in 1..Len(d) :
                  /\ d[i][2] = cfg.size
                  /\ d[i][1] <= pos[gm.h]
                  /\ i > 1 => d[i - 1][1] <= d[i][1]
            /\ d # <<>> => d[Len(d)][1] = Len(raw_media)

\* C22 witness: a read of one byte and then a zero-length read, both notified
\* with one byte fetched
C22_Witness ==
    \E c \in Calls :
        /\ kind[c] = "get_media"
        /\ call = c
        /\ gm.reads = 2
        /\ gm.data_len = 0
        /\ Len(Downloads(c)) = 2
        /\ Downloads(c)[1][1] = 1
        /\ Downloads(c)[2][1] = 1

\* the concatenation of a list of bytes objects
RECURSIVE Flatten(_)
Flatten(q) == IF q = <<>> THEN <<>> ELSE Head(q) \o Flatten(Tail(q))

\* C23: the payloads the worker has published followed by pending_data are
\* the bytes it has read, and a worker that ended without failure and without
\* the halt marker has an empty pending_data.
C23_NoByteLost ==
    \A c \in Calls :
        LET w == worker[c] IN
        /\ Flatten(AudioPayloads(appended[c])) \o w.pending_data = w.full_data
        /\ (w.pc = "done" /\ w.ended \in {"all", "tolerated"})
              => w.pending_data = <<>>

\* C24: once play() has returned through its final reset_stream() and no
\* other call has started, self.__stream stays None: the worker of that
\* play() does not load a stream again.
C24_NoHandleAfterPlay ==
    \A c \in Calls :
        (/\ kind[c] = "play"
         /\ call = c
         /\ spc = "idle"
         /\ result[c] = "returned")
            => stream = 0

\* C25: the watchdog branch is only entered with an empty container.
C25_StallOnlyWithEmptyQueue ==
    [][(spc = "loop" /\ spc' = "stall_join") => container[call] = <<>>]_vars

\* C26: whenever estimated_playback_end_on is extended for lag at an item,
\* the clock has reached the value estimated_playback_end_on had before.
C26_OverrunOnlyWhenStarved ==
    \A c \in Calls :
        \A i \in 2..Len(takes[c]) :
            Extension(c, i) > 0 => takes[c][i].at >= takes[c][i - 1].end

\* C27: a get_media() that ended with MediaFetchInterruptedException had not
\* read all the bytes of the stream.
C27_InterruptedOnlyIfIncomplete ==
    \A c \in Calls :
        (kind[c] = "get_media" /\ call = c /\ result[c] = "interrupted")
            => Len(raw_media) < cfg.size

====
